---- MODULE Spec2Model ----
(***************************************************************************)
(* Model of the git panels package: five presentational panels (Commit     *)
(* History, Commit Detail, Pull Requests, Pull Request Detail, Git Config) *)
(* that read host-provided data slices, subscribe to named events on an    *)
(* event channel, and emit events on user interaction.                     *)
(*                                                                         *)
(* Conventions.  A JavaScript value that may be null/undefined is a        *)
(* sequence of length at most one: <<>> is null/undefined, <<v>> is v.     *)
(* Strings whose characters matter (hashes, commit messages) are tuples of *)
(* one-character strings.  lastEvent, invoked and outcome describe the     *)
(* most recent step (what the mock emitter and the console logged in it).  *)
(***************************************************************************)
EXTENDS Integers, Sequences, FiniteSets, TLC

Null == <<>>
Some(v) == <<v>>
Val(o) == o[1]

Min(a, b) == IF a < b THEN a ELSE b

----------------------------------------------------------------------------
(* Bounds of the model *)

\* longest commits / pullRequests array the host puts in a slice
MaxLen == 3
\* most refresh() promises in flight at once
MaxPending == 1
\* oldest date a formatter is given, in years before now
MaxYears == 2
\* most handler closures of one panel told apart at once
MaxRuns == 2

----------------------------------------------------------------------------
(* Strings *)

\* String.prototype.substring(0, n)
substring(s, n) == SubSeq(s, 1, Min(n, Len(s)))

\* index of the first "\n" of s, 0 if none
RECURSIVE IndexOfNewline(_, _)
IndexOfNewline(s, i) ==
  IF i > Len(s) THEN 0
  ELSE IF s[i] = "\n" THEN i
  ELSE IndexOfNewline(s, i + 1)

\* message.split('\n')[0]
firstLine(message) ==
  LET k == IndexOfNewline(message, 1)
  IN  IF k = 0 THEN message ELSE SubSeq(message, 1, k - 1)

SHORT_HASH_LEN == 8

\* selectedCommit.hash.substring(0, 8)
shortHash(commit) == substring(commit.hash, SHORT_HASH_LEN)

----------------------------------------------------------------------------
(* Data supplied by the host *)

\* new Date(date).getTime() of the ISO date strings used in the model, in
\* hours; two different strings denote the same instant
getTime(date) ==
  CASE date = "2024-01-01T00:00:00Z"      -> 0
    [] date = "2024-01-01T12:00:00Z"      -> 12
    [] date = "2024-01-01T13:00:00+01:00" -> 12
    [] date = "2024-01-02T00:00:00Z"      -> 24

\* GitCommitInfo records of the 'commits' slice
CommitInfos ==
  { [hash |-> <<"a","1","b","2","c","3","d","4","e","5">>,
     message |-> <<"f","i","x">>, date |-> "2024-01-01T00:00:00Z"],
    [hash |-> <<"b","2","c","3","d","4","e","5","f","6">>,
     message |-> <<"a","d","d","\n","x">>, date |-> "2024-01-01T12:00:00Z"],
    [hash |-> <<"c","3","d","4","e","5","f","6","a","7">>,
     message |-> <<"d","o","c">>, date |-> "2024-01-01T13:00:00+01:00"],
    [hash |-> <<"d","4","e","5","f","6","a","7","b","8">>,
     message |-> <<"w","i","p">>, date |-> "2024-01-02T00:00:00Z"] }

\* GitCommitDetail records carried by 'git-panels.commit-detail:loaded'
CommitDetails ==
  { [hash |-> <<"a","1","b","2","c","3","d","4","e","5">>,
     message |-> <<"f","i","x","\n","\n","b","o","d","y">>,
     stats |-> [additions |-> 2, deletions |-> 1, total |-> 3]],
    [hash |-> <<"b","2","c","3","d","4">>,
     message |-> <<"a","d","d">>,
     stats |-> [additions |-> 0, deletions |-> 0, total |-> 0]] }

\* PullRequestInfo records; merged_at is Some(date), Some("null") for an
\* explicit null, or Null when the optional field is absent
PullRequests ==
  { [id |-> 1, state |-> "open",   merged_at |-> Some("null")],
    [id |-> 2, state |-> "closed", merged_at |-> Some("2024-01-01T00:00:00Z")],
    [id |-> 3, state |-> "closed", merged_at |-> Some("null")],
    [id |-> 4, state |-> "closed", merged_at |-> Null] }

\* error strings a host reports
ErrorStrings == {"", "X"}

\* all sequences over S of length at most n
SeqsUpTo(S, n) == UNION {[1..k -> S] : k \in 0..n}

----------------------------------------------------------------------------
(* Panels, slices and event types *)

Panels == {"history", "detail", "prs", "prDetail", "config"}
ListPanels == {"history", "prs", "config"}
Slices == {"commits", "pullRequests", "gitConfig"}

\* the slice a list panel reads
sliceOf(p) ==
  CASE p = "history" -> "commits"
    [] p = "prs"     -> "pullRequests"
    [] p = "config"  -> "gitConfig"

\* the event types a panel passes to events.on when it mounts
Listens(p) ==
  CASE p = "history"  -> {"git-panels.commit-history:refresh",
                          "git-panels.commit-history:set-limit"}
    [] p = "detail"   -> {"git-panels.commit-detail:loading",
                          "git-panels.commit-detail:loaded",
                          "git-panels.commit-detail:error"}
    [] p = "prs"      -> {"git-panels.pull-requests:refresh",
                          "git-panels.pull-requests:set-filter"}
    [] p = "prDetail" -> {"git-panels.pull-request:selected"}
    [] p = "config"   -> {"git-panels.config:refresh",
                          "git-panels.config:set-view"}

\* a payload with no fields: {}
EmptyPayload ==
  [hash |-> Null, commit |-> Null, error |-> Null, pr |-> Null,
   limit |-> Null, filter |-> Null, mode |-> Null]

\* PanelEvent (the timestamp is not modelled)
Event(type, source, payload) ==
  [type |-> type, source |-> source, payload |-> payload]

----------------------------------------------------------------------------
VARIABLES
  mounted,         \* panel -> is the component mounted
  handlers,        \* the emitter's Map<type, Set<handler>>, as a set of
                   \* [type, panel] records (the handler closure of panel)
  unsubscribers,   \* panel -> the disposers its effect holds
  selectedCommit,  \* Commit Detail: useState<GitCommitDetail | null>
  isLoading,       \* Commit Detail: useState(false)
  error,           \* Commit Detail: useState<string | null>
  selectedPR,      \* PR Detail: useState<PullRequestInfo | null>
  limit,           \* Commit History: useState(25)
  selectedHash,    \* Commit History: useState<string | null>
  filter,          \* Pull Requests: useState<FilterState>('open')
  revision,        \* Pull Requests: which revision of the panel is built
  viewMode,        \* Git Config: useState<ViewMode>('summary')
  repository,      \* context.currentScope.repository is set
  hasSlice,        \* slice -> context.hasSlice(slice)
  sliceDefined,    \* slice -> context.getSlice(slice) is not undefined
  sliceLoading,    \* slice -> context.isSliceLoading(slice)
  commits,         \* getSlice('commits').data.commits, Null if no data
  pullRequests,    \* getSlice('pullRequests').data.pullRequests, Null if none
  gitConfig,       \* getSlice('gitConfig').data is present
  pending,         \* the refresh() promises not yet settled
  outcome,         \* what the last step did with a settled refresh()
  lastEvent,       \* the event the last step emitted, Null if none
  invoked,         \* the handlers the last step's emit called
  fetching,        \* host: the hashes whose commit detail it is fetching
  eventsProp,      \* panel -> the emitter object its events prop holds,
                   \* Null while the panel is not rendered
  registry,        \* the handler Sets of every emitter object, as a set of
                   \* [emitter, type, panel, run] records (run tells the
                   \* closures of different effect runs apart)
  disposers,       \* panel -> the disposers its last effect run holds
  now,             \* formatters: the instant new Date() reads, in seconds
  dateStr,         \* formatters: the argument, Null for undefined / null
  returned         \* formatters: the function last called and its result

channelVars == <<mounted, handlers, unsubscribers>>
detailVars == <<selectedCommit, isLoading, error>>
listVars == <<limit, selectedHash, filter, viewMode>>
contextVars == <<repository, hasSlice, sliceDefined, sliceLoading,
                 commits, pullRequests, gitConfig>>
formatVars == <<now, dateStr, returned>>
effectVars == <<eventsProp, registry, disposers>>
panelVars == <<mounted, handlers, unsubscribers, selectedCommit, isLoading,
               error, selectedPR, limit, selectedHash, filter, revision,
               viewMode, repository, hasSlice, sliceDefined, sliceLoading,
               commits, pullRequests, gitConfig, pending, outcome, lastEvent,
               invoked, fetching, eventsProp, registry, disposers>>
vars == <<mounted, handlers, unsubscribers, selectedCommit, isLoading, error,
          selectedPR, limit, selectedHash, filter, revision, viewMode,
          repository, hasSlice, sliceDefined, sliceLoading, commits,
          pullRequests, gitConfig, pending, outcome, lastEvent, invoked,
          fetching, eventsProp, registry, disposers, now, dateStr,
          returned>>

----------------------------------------------------------------------------
(* Commit History: the list derived from the slice *)

\* commitsSlice?.data?.commits ?? []
readCommits ==
  IF sliceDefined["commits"] /\ commits # Null THEN Val(commits) ELSE <<>>

\* Array.prototype.slice(0, n) for an integer n >= 0
slice(a, n) == SubSeq(a, 1, Min(n, Len(a)))

\* a comparator that sorts oldest first: timeA - timeB
compareCommits_Ascending(a, b) == getTime(a.date) - getTime(b.date)

\* the comparator of the sort: timeB - timeA
compareCommits(a, b) == getTime(b.date) - getTime(a.date)

\* Array.prototype.sort is a stable sort: the indices idx of the array a are
\* put in comparator order and elements that compare equal keep their order.
\* insertIndex puts index i into the sorted index sequence s, after every
\* index whose element does not have to come after a[i].
RECURSIVE insertIndex(_, _, _)
insertIndex(a, s, i) ==
  IF s = <<>> THEN <<i>>
  ELSE IF compareCommits(a[s[Len(s)]], a[i]) > 0
       THEN Append(insertIndex(a, SubSeq(s, 1, Len(s) - 1), i), s[Len(s)])
       ELSE Append(s, i)

RECURSIVE sortIndices(_, _)
sortIndices(a, n) ==
  IF n = 0 THEN <<>> ELSE insertIndex(a, sortIndices(a, n - 1), n)

\* the positions in arr of the entries of sortedCommits, in display order
sortedOrder(arr, lim) ==
  LET a == slice(arr, lim) IN sortIndices(a, Len(a))

\* a render whose sort is called on the slice's own array
commitsAfterRender_SortsInPlace(arr, lim) ==
  LET idx == sortIndices(arr, Len(arr)) IN [i \in 1..Len(idx) |-> arr[idx[i]]]

\* the contents of the slice's commits array after a render: slice(0, limit)
\* returns a new array and sort() reorders the array it is called on, so the
\* array of the slice is as it was
commitsAfterRender(arr, lim) == arr

\* commits.slice(0, limit).sort((a, b) => timeB - timeA)
sortedCommitsOf(arr, lim) ==
  LET idx == sortedOrder(arr, lim) IN [i \in 1..Len(idx) |-> arr[idx[i]]]

sortedCommits == sortedCommitsOf(readCommits, limit)

\* what the Commit History panel renders
HistoryDisplay ==
  IF ~repository THEN "norepo"
  ELSE IF ~hasSlice["commits"] THEN "unavailable"
  ELSE IF sliceLoading["commits"] /\ Len(readCommits) = 0 THEN "loading"
  ELSE IF ~sliceLoading["commits"] /\ Len(sortedCommits) = 0 THEN "empty"
  ELSE "list"

----------------------------------------------------------------------------
(* Pull Requests: filter, labels *)

\* prSlice?.data?.pullRequests ?? []
readPullRequests ==
  IF sliceDefined["pullRequests"] /\ pullRequests # Null
  THEN Val(pullRequests) ELSE <<>>

\* the filter values the set-filter handler accepts
acceptedFilters(rev) ==
  IF rev = "three" THEN {"all", "open", "closed"} ELSE {"open", "closed"}

\* the filter buttons rendered
filterButtons(rev) ==
  IF rev = "three" THEN {"open", "closed", "all"} ELSE {"open", "closed"}

filterTest(rev, f, pr) ==
  IF rev = "three" /\ f = "all" THEN TRUE ELSE pr.state = f

\* pullRequests.filter((pr) => pr.state === filter), all of them for 'all'
filteredOf(rev, prs, f) == SelectSeq(prs, LAMBDA pr : filterTest(rev, f, pr))

filteredPullRequests == filteredOf(revision, readPullRequests, filter)

\* counts in which a merged pull request is not counted as closed
counts_ClosedWithoutMerged(rev, prs) ==
  [v \in filterButtons(rev) |->
     CASE v = "open" -> Len(SelectSeq(prs, LAMBDA pr : pr.state = "open"))
       [] v = "closed" ->
            Len(SelectSeq(prs, LAMBDA pr : pr.state = "closed"
                                           /\ pr.merged_at \in {Null, Some("null")}))
       [] v = "all" -> Len(prs)]

\* counts: the number each filter button shows
counts(rev, prs) ==
  [v \in filterButtons(rev) |->
     CASE v = "open" -> Len(SelectSeq(prs, LAMBDA pr : pr.state = "open"))
       [] v = "closed" -> Len(SelectSeq(prs, LAMBDA pr : pr.state = "closed"))
       [] v = "all" -> Len(prs)]

\* the count badges the panel renders
countBadges == counts(revision, readPullRequests)

\* pr.merged_at !== null
isMerged(pr) == pr.merged_at # Some("null")

\* pr.state === 'open'
isOpen(pr) == pr.state = "open"

\* the status word PullRequestCard shows for a pull request that is not open
\* (both revisions), "" if it shows none
cardLabel(pr) ==
  IF ~isOpen(pr) THEN (IF isMerged(pr) THEN "Merged" ELSE "Closed") ELSE ""

\* statusLabel of the PR Detail panel
statusLabel(pr) ==
  IF isOpen(pr) THEN "Open" ELSE IF isMerged(pr) THEN "Merged" ELSE "Closed"

\* what the Pull Requests panel renders
PullRequestsDisplay ==
  IF sliceLoading["pullRequests"] /\ Len(readPullRequests) = 0 THEN "loading"
  ELSE IF ~repository THEN "norepo"
  ELSE IF ~hasSlice["pullRequests"] THEN "unavailable"
  ELSE IF Len(filteredPullRequests) = 0 THEN "empty"
  ELSE "list"

----------------------------------------------------------------------------
(* Git Config *)

\* configSlice?.data
readConfig == sliceDefined["gitConfig"] /\ gitConfig

\* what the Git Config panel renders
ConfigDisplay ==
  IF ~repository THEN "norepo"
  ELSE IF ~hasSlice["gitConfig"] THEN "unavailable"
  ELSE IF sliceLoading["gitConfig"] /\ ~readConfig THEN "loading"
  ELSE "list"

\* the display of a list panel
ListDisplay(p) ==
  CASE p = "history" -> HistoryDisplay
    [] p = "prs"     -> PullRequestsDisplay
    [] p = "config"  -> ConfigDisplay

----------------------------------------------------------------------------
(* Detail panels *)

\* JavaScript truthiness of an optional string
truthy(s) == s # Null /\ Val(s) # ""

DEFAULT_ERROR == "Failed to load commit"

\* what the Commit Detail panel renders
CommitDetailDisplay ==
  IF isLoading THEN "loading"
  ELSE IF truthy(error) THEN "error"
  ELSE IF selectedCommit = Null THEN "empty"
  ELSE "loaded"

\* what the PR Detail panel renders
PRDetailDisplay == IF selectedPR = Null THEN "empty" ELSE "loaded"

\* the fields of the loaded display of Commit Detail: the title, the hash
\* after 'sha', and the numbers of the stats badge
shownTitle == firstLine(Val(selectedCommit).message)
shownHash == shortHash(Val(selectedCommit))
shownStats ==
  [additions |-> Val(selectedCommit).stats.additions,
   deletions |-> Val(selectedCommit).stats.deletions]

\* the message of the error display of Commit Detail
shownError == Val(error)

----------------------------------------------------------------------------
(* Initial state: createMockContext / createMockEvents, nothing mounted *)

DEFAULT_LIMIT == 25

SampleCommits ==
  << CHOOSE c \in CommitInfos : c.date = "2024-01-01T00:00:00Z",
     CHOOSE c \in CommitInfos : c.date = "2024-01-02T00:00:00Z" >>

SamplePullRequests ==
  << CHOOSE pr \in PullRequests : pr.id = 1,
     CHOOSE pr \in PullRequests : pr.id = 2,
     CHOOSE pr \in PullRequests : pr.id = 4 >>

\* the useState defaults of every panel
InitPanelState ==
  /\ selectedCommit = Null
  /\ isLoading = FALSE
  /\ error = Null
  /\ selectedPR = Null
  /\ limit = DEFAULT_LIMIT
  /\ selectedHash = Null
  /\ filter = "open"
  /\ viewMode = "summary"

\* no formatter has been called; the clock is at the origin of getTime
InitFormat ==
  /\ now = 0
  /\ dateStr = Null
  /\ returned = Null

\* no panel is rendered and no emitter holds a handler
InitEffects ==
  /\ eventsProp = [p \in Panels |-> Null]
  /\ registry = {}
  /\ disposers = [p \in Panels |-> {}]

InitChannel ==
  /\ mounted = [p \in Panels |-> FALSE]
  /\ handlers = {}
  /\ unsubscribers = [p \in Panels |-> {}]
  /\ pending = {}
  /\ outcome = "none"
  /\ lastEvent = Null
  /\ invoked = {}
  /\ fetching = {}
  /\ InitEffects
  /\ InitFormat

\* the default mock context: a repository, every slice present and loaded
InitContext ==
  /\ repository = TRUE
  /\ hasSlice = [s \in Slices |-> TRUE]
  /\ sliceDefined = [s \in Slices |-> TRUE]
  /\ sliceLoading = [s \in Slices |-> FALSE]
  /\ commits = Some(SampleCommits)
  /\ pullRequests = Some(SamplePullRequests)
  /\ gitConfig = TRUE

Init ==
  /\ InitPanelState
  /\ InitChannel
  /\ InitContext
  /\ revision \in {"two", "three"}

----------------------------------------------------------------------------
(* Mount and unmount: the subscription effect and its cleanup *)

\* Commit Detail also registering a handler for the selection event
subscriptions_DetailHearsSelection(p) ==
  {[type |-> t, panel |-> p] :
     t \in Listens(p) \cup (IF p = "detail" THEN {"git-panels.commit:selected"}
                           ELSE {})}

\* the handlers panel p registers: one events.on(type, handler) per type
subscriptions(p) == {[type |-> t, panel |-> p] : t \in Listens(p)}

\* a cleanup that leaves one of the disposers uncalled
cleanup_SkipsOne(hs, p) ==
  IF unsubscribers[p] = {} THEN hs
  ELSE hs \ (unsubscribers[p] \ {CHOOSE h \in unsubscribers[p] : TRUE})

\* the effect's cleanup calls every disposer it holds; a disposer deletes
\* its handler from the Set of its type
cleanup(hs, p) == hs \ unsubscribers[p]

\* the state of panel p is (re)set to its useState defaults
ResetPanelState(p) ==
  /\ IF p = "detail"
     THEN selectedCommit' = Null /\ isLoading' = FALSE /\ error' = Null
     ELSE UNCHANGED detailVars
  /\ IF p = "prDetail" THEN selectedPR' = Null ELSE UNCHANGED selectedPR
  /\ IF p = "history"
     THEN limit' = DEFAULT_LIMIT /\ selectedHash' = Null
     ELSE UNCHANGED <<limit, selectedHash>>
  /\ IF p = "prs" THEN filter' = "open" ELSE UNCHANGED filter
  /\ IF p = "config" THEN viewMode' = "summary" ELSE UNCHANGED viewMode

Mount(p) ==
  /\ ~mounted[p]
  /\ mounted' = [mounted EXCEPT ![p] = TRUE]
  /\ handlers' = handlers \cup subscriptions(p)
  /\ unsubscribers' = [unsubscribers EXCEPT ![p] = subscriptions(p)]
  /\ ResetPanelState(p)
  /\ outcome' = "none" /\ lastEvent' = Null /\ invoked' = {}
  /\ UNCHANGED <<revision, contextVars, pending, fetching, formatVars,
                 effectVars>>

Unmount(p) ==
  /\ mounted[p]
  /\ mounted' = [mounted EXCEPT ![p] = FALSE]
  /\ handlers' = cleanup(handlers, p)
  /\ unsubscribers' = [unsubscribers EXCEPT ![p] = {}]
  /\ ResetPanelState(p)
  /\ outcome' = "none" /\ lastEvent' = Null /\ invoked' = {}
  /\ UNCHANGED <<revision, contextVars, pending, fetching, formatVars,
                 effectVars>>

----------------------------------------------------------------------------
(* Event delivery: emit calls every handler subscribed to event.type *)

subscribed(p, type) == [type |-> type, panel |-> p] \in handlers

\* the refresh() promise a caller of panel p awaits
Refresh(p, via) == [panel |-> p, via |-> via, slice |-> sliceOf(p)]

\* Commit Detail handlers in which a repeated ':loading' event ends loading
DeliverDetail_LoadingToggles(e) ==
  IF subscribed("detail", e.type) /\ e.type = "git-panels.commit-detail:loading"
  THEN /\ isLoading' = ~isLoading
       /\ error' = Null
       /\ UNCHANGED selectedCommit
  ELSE IF subscribed("detail", e.type) /\ e.type = "git-panels.commit-detail:loaded"
  THEN IF e.payload.commit # Null
       THEN /\ selectedCommit' = e.payload.commit
            /\ isLoading' = FALSE
            /\ error' = Null
       ELSE UNCHANGED detailVars
  ELSE IF subscribed("detail", e.type) /\ e.type = "git-panels.commit-detail:error"
  THEN /\ error' = IF truthy(e.payload.error) THEN e.payload.error
                   ELSE Some(DEFAULT_ERROR)
       /\ isLoading' = FALSE
       /\ UNCHANGED selectedCommit
  ELSE UNCHANGED detailVars

\* Commit Detail handlers in which the ':loaded' handler leaves isLoading set
DeliverDetail_LoadedKeepsLoading(e) ==
  IF subscribed("detail", e.type) /\ e.type = "git-panels.commit-detail:loading"
  THEN /\ isLoading' = TRUE
       /\ error' = Null
       /\ UNCHANGED selectedCommit
  ELSE IF subscribed("detail", e.type) /\ e.type = "git-panels.commit-detail:loaded"
  THEN IF e.payload.commit # Null
       THEN /\ selectedCommit' = e.payload.commit
            /\ error' = Null
            /\ UNCHANGED isLoading
       ELSE UNCHANGED detailVars
  ELSE IF subscribed("detail", e.type) /\ e.type = "git-panels.commit-detail:error"
  THEN /\ error' = IF truthy(e.payload.error) THEN e.payload.error
                   ELSE Some(DEFAULT_ERROR)
       /\ isLoading' = FALSE
       /\ UNCHANGED selectedCommit
  ELSE UNCHANGED detailVars

\* Commit Detail handlers in which the ':error' handler leaves isLoading set
DeliverDetail_ErrorKeepsLoading(e) ==
  IF subscribed("detail", e.type) /\ e.type = "git-panels.commit-detail:loading"
  THEN /\ isLoading' = TRUE
       /\ error' = Null
       /\ UNCHANGED selectedCommit
  ELSE IF subscribed("detail", e.type) /\ e.type = "git-panels.commit-detail:loaded"
  THEN IF e.payload.commit # Null
       THEN /\ selectedCommit' = e.payload.commit
            /\ isLoading' = FALSE
            /\ error' = Null
       ELSE UNCHANGED detailVars
  ELSE IF subscribed("detail", e.type) /\ e.type = "git-panels.commit-detail:error"
  THEN /\ error' = IF truthy(e.payload.error) THEN e.payload.error
                   ELSE Some(DEFAULT_ERROR)
       /\ UNCHANGED <<isLoading, selectedCommit>>
  ELSE UNCHANGED detailVars

\* Commit Detail handlers in which a ':loaded' event without a commit ends
\* loading
DeliverDetail_EmptyLoadedEndsLoading(e) ==
  IF subscribed("detail", e.type) /\ e.type = "git-panels.commit-detail:loading"
  THEN /\ isLoading' = TRUE
       /\ error' = Null
       /\ UNCHANGED selectedCommit
  ELSE IF subscribed("detail", e.type) /\ e.type = "git-panels.commit-detail:loaded"
  THEN IF e.payload.commit # Null
       THEN /\ selectedCommit' = e.payload.commit
            /\ isLoading' = FALSE
            /\ error' = Null
       ELSE /\ isLoading' = FALSE
            /\ UNCHANGED <<selectedCommit, error>>
  ELSE IF subscribed("detail", e.type) /\ e.type = "git-panels.commit-detail:error"
  THEN /\ error' = IF truthy(e.payload.error) THEN e.payload.error
                   ELSE Some(DEFAULT_ERROR)
       /\ isLoading' = FALSE
       /\ UNCHANGED selectedCommit
  ELSE UNCHANGED detailVars

\* Commit Detail handlers
DeliverDetail(e) ==
  IF subscribed("detail", e.type) /\ e.type = "git-panels.commit-detail:loading"
  THEN /\ isLoading' = TRUE
       /\ error' = Null
       /\ UNCHANGED selectedCommit
  ELSE IF subscribed("detail", e.type) /\ e.type = "git-panels.commit-detail:loaded"
  THEN IF e.payload.commit # Null
       THEN /\ selectedCommit' = e.payload.commit
            /\ isLoading' = FALSE
            /\ error' = Null
       ELSE UNCHANGED detailVars
  ELSE IF subscribed("detail", e.type) /\ e.type = "git-panels.commit-detail:error"
  THEN /\ error' = IF truthy(e.payload.error) THEN e.payload.error
                   ELSE Some(DEFAULT_ERROR)
       /\ isLoading' = FALSE
       /\ UNCHANGED selectedCommit
  ELSE UNCHANGED detailVars

\* a PR Detail handler that keeps the pull request it already shows
DeliverPRDetail_KeepsFirst(e) ==
  IF subscribed("prDetail", e.type) /\ e.type = "git-panels.pull-request:selected"
     /\ e.payload.pr # Null /\ selectedPR = Null
  THEN selectedPR' = e.payload.pr
  ELSE UNCHANGED selectedPR

\* PR Detail handler
DeliverPRDetail(e) ==
  IF subscribed("prDetail", e.type) /\ e.type = "git-panels.pull-request:selected"
     /\ e.payload.pr # Null
  THEN selectedPR' = e.payload.pr
  ELSE UNCHANGED selectedPR

\* Commit History handlers; the refresh handler is in DeliverRefresh
DeliverHistory(e) ==
  IF subscribed("history", e.type) /\ e.type = "git-panels.commit-history:set-limit"
     /\ e.payload.limit # Null /\ Val(e.payload.limit) # 0
     /\ Val(e.payload.limit) > 0
  THEN limit' = Val(e.payload.limit)
  ELSE UNCHANGED limit

\* Pull Requests handlers
DeliverPRs(e) ==
  IF subscribed("prs", e.type) /\ e.type = "git-panels.pull-requests:set-filter"
     /\ truthy(e.payload.filter)
     /\ Val(e.payload.filter) \in acceptedFilters(revision)
  THEN filter' = Val(e.payload.filter)
  ELSE UNCHANGED filter

\* Git Config handlers
DeliverConfig(e) ==
  IF subscribed("config", e.type) /\ e.type = "git-panels.config:set-view"
     /\ truthy(e.payload.mode)
     /\ Val(e.payload.mode) \in {"summary", "detailed"}
  THEN viewMode' = Val(e.payload.mode)
  ELSE UNCHANGED viewMode

refreshType(p) ==
  CASE p = "history" -> "git-panels.commit-history:refresh"
    [] p = "prs"     -> "git-panels.pull-requests:refresh"
    [] p = "config"  -> "git-panels.config:refresh"

\* the refresh handlers call context.refresh('repository', slice)
refreshCalls(e) ==
  {Refresh(p, "handler") : p \in {q \in ListPanels :
      subscribed(q, e.type) /\ e.type = refreshType(q)}}

DeliverRefresh(e) ==
  /\ Cardinality(pending \cup refreshCalls(e)) <= MaxPending
  /\ pending' = pending \cup refreshCalls(e)

\* events.emit(event): the event is logged and every handler of its type is
\* called
fanOut(e) ==
  /\ lastEvent' = Some(e)
  /\ invoked' = {h \in handlers : h.type = e.type}
  /\ outcome' = "none"
  /\ UNCHANGED <<channelVars, revision, contextVars, formatVars, effectVars>>

\* events.emit(event) by a panel, a tool or a story
emit(e) ==
  /\ fanOut(e)
  /\ UNCHANGED fetching

----------------------------------------------------------------------------
(* Events the host and the tools emit *)

With(field, v) == [EmptyPayload EXCEPT ![field] = Some(v)]

HostEvent(type, payload) == Event(type, "host", payload)

CommitDetailEvents ==
  {HostEvent("git-panels.commit-detail:loading", With("hash", <<"a","1">>))}
  \cup {HostEvent("git-panels.commit-detail:loaded", With("commit", c)) :
          c \in CommitDetails}
  \cup {HostEvent("git-panels.commit-detail:loaded", EmptyPayload)}
  \cup {HostEvent("git-panels.commit-detail:error", With("error", x)) :
          x \in ErrorStrings}
  \cup {HostEvent("git-panels.commit-detail:error", EmptyPayload)}

PullRequestEvents ==
  {HostEvent("git-panels.pull-request:selected", With("pr", pr)) :
          pr \in PullRequests}
  \cup {HostEvent("git-panels.pull-request:selected", EmptyPayload)}
  \cup {HostEvent("git-panels.pull-request:deselected", EmptyPayload)}

LimitPayloads == {-1, 0, 1, 2, 101}
FilterPayloads == {"", "all", "open", "closed", "merged"}
ModePayloads == {"summary", "detailed", "raw"}

SettingEvents ==
  {HostEvent("git-panels.commit-history:set-limit", With("limit", n)) :
          n \in LimitPayloads}
  \cup {HostEvent("git-panels.commit-history:set-limit", EmptyPayload)}
  \cup {HostEvent("git-panels.pull-requests:set-filter", With("filter", f)) :
          f \in FilterPayloads}
  \cup {HostEvent("git-panels.pull-requests:set-filter", EmptyPayload)}
  \cup {HostEvent("git-panels.config:set-view", With("mode", m)) :
          m \in ModePayloads}
  \cup {HostEvent("git-panels.config:set-view", EmptyPayload)}

RefreshEvents == {HostEvent(refreshType(p), EmptyPayload) : p \in ListPanels}

\* the host (or a tool dispatch) emits e on the channel
HostEmit(e) ==
  /\ emit(e)
  /\ DeliverDetail(e)
  /\ DeliverPRDetail(e)
  /\ DeliverHistory(e)
  /\ DeliverPRs(e)
  /\ DeliverConfig(e)
  /\ DeliverRefresh(e)
  /\ UNCHANGED selectedHash

----------------------------------------------------------------------------
(* User actions *)

\* a Close button that emits the deselect event and keeps the commit
handleClose_KeepsCommit ==
  LET e == Event("git-panels.commit:deselected", "git-panels.commit-detail",
                 EmptyPayload)
  IN  /\ mounted["detail"]
      /\ CommitDetailDisplay = "loaded"
      /\ UNCHANGED detailVars
      /\ emit(e)
      /\ DeliverPRDetail(e)
      /\ DeliverHistory(e)
      /\ DeliverPRs(e)
      /\ DeliverConfig(e)
      /\ DeliverRefresh(e)
      /\ UNCHANGED selectedHash

\* Commit Detail: the Close button (rendered in the loaded display only)
handleClose ==
  LET e == Event("git-panels.commit:deselected", "git-panels.commit-detail",
                 EmptyPayload)
  IN  /\ mounted["detail"]
      /\ CommitDetailDisplay = "loaded"
      /\ selectedCommit' = Null
      /\ error' = Null
      /\ UNCHANGED isLoading
      /\ emit(e)
      /\ DeliverPRDetail(e)
      /\ DeliverHistory(e)
      /\ DeliverPRs(e)
      /\ DeliverConfig(e)
      /\ DeliverRefresh(e)
      /\ UNCHANGED selectedHash

\* PR Detail: the Back button (rendered in the loaded display only)
handleBack ==
  LET e == Event("git-panels.pull-request:deselected",
                 "git-panels.pull-request-detail", EmptyPayload)
  IN  /\ mounted["prDetail"]
      /\ PRDetailDisplay = "loaded"
      /\ selectedPR' = Null
      /\ emit(e)
      /\ DeliverDetail(e)
      /\ DeliverHistory(e)
      /\ DeliverPRs(e)
      /\ DeliverConfig(e)
      /\ DeliverRefresh(e)
      /\ UNCHANGED selectedHash

\* a row click that puts the whole commit in the payload
CommitCardClick_SendsCommit(i) ==
  LET commit == sortedCommits[i]
      e == Event("git-panels.commit:selected", "git-panels.commit-history",
                 [With("hash", commit.hash) EXCEPT !.commit = Some(commit)])
  IN  /\ mounted["history"]
      /\ HistoryDisplay = "list"
      /\ i \in 1..Len(sortedCommits)
      /\ selectedHash' = Some(commit.hash)
      /\ UNCHANGED limit
      /\ emit(e)
      /\ DeliverDetail(e)
      /\ DeliverPRDetail(e)
      /\ DeliverPRs(e)
      /\ DeliverConfig(e)
      /\ DeliverRefresh(e)

\* Commit History: a click on row i of the list
CommitCardClick(i) ==
  LET commit == sortedCommits[i]
      e == Event("git-panels.commit:selected", "git-panels.commit-history",
                 With("hash", commit.hash))
  IN  /\ mounted["history"]
      /\ HistoryDisplay = "list"
      /\ i \in 1..Len(sortedCommits)
      /\ selectedHash' = Some(commit.hash)
      /\ UNCHANGED limit
      /\ emit(e)
      /\ DeliverDetail(e)
      /\ DeliverPRDetail(e)
      /\ DeliverPRs(e)
      /\ DeliverConfig(e)
      /\ DeliverRefresh(e)

\* Pull Requests: a click on card i of the list
handlePRClick(i) ==
  LET pr == filteredPullRequests[i]
      e == Event("git-panels.pull-request:selected", "git-panels.pull-requests",
                 With("pr", pr))
  IN  /\ mounted["prs"]
      /\ PullRequestsDisplay = "list"
      /\ i \in 1..Len(filteredPullRequests)
      /\ UNCHANGED filter
      /\ emit(e)
      /\ DeliverDetail(e)
      /\ DeliverPRDetail(e)
      /\ DeliverHistory(e)
      /\ DeliverConfig(e)
      /\ DeliverRefresh(e)
      /\ UNCHANGED selectedHash

\* a step in which nothing is emitted and no refresh() settles
Quiet ==
  /\ outcome' = "none" /\ lastEvent' = Null /\ invoked' = {}
  /\ UNCHANGED <<fetching, formatVars, effectVars>>

\* Pull Requests: a click on a filter button
FilterClick(value) ==
  /\ mounted["prs"]
  /\ PullRequestsDisplay \in {"empty", "list"}
  /\ value \in filterButtons(revision)
  /\ filter' = value
  /\ Quiet
  /\ UNCHANGED <<channelVars, detailVars, selectedPR, limit, selectedHash,
                 revision, viewMode, contextVars, pending>>

\* Git Config: a click on a view-mode button
ViewModeClick(mode) ==
  /\ mounted["config"]
  /\ ConfigDisplay = "list"
  /\ mode \in {"summary", "detailed"}
  /\ viewMode' = mode
  /\ Quiet
  /\ UNCHANGED <<channelVars, detailVars, selectedPR, limit, selectedHash,
                 filter, revision, contextVars, pending>>

----------------------------------------------------------------------------
(* Refresh requests *)

\* handleRefresh: the Refresh button, disabled while the slice is loading
handleRefresh(p) ==
  /\ mounted[p]
  /\ ListDisplay(p) \in {"loading", "empty", "list"}
  /\ ListDisplay(p) = "loading" => p = "history"
  /\ ~sliceLoading[sliceOf(p)]
  /\ Cardinality(pending \cup {Refresh(p, "button")}) <= MaxPending
  /\ pending' = pending \cup {Refresh(p, "button")}
  /\ Quiet
  /\ UNCHANGED <<channelVars, detailVars, selectedPR, listVars, revision,
                 contextVars>>

\* an onMount hook that refreshes a slice that is already loading
onMount_IgnoresLoading(p) ==
  /\ p \in {"history", "prs"}
  /\ IF hasSlice[sliceOf(p)]
     THEN /\ Cardinality(pending \cup {Refresh(p, "onMount")}) <= MaxPending
          /\ pending' = pending \cup {Refresh(p, "onMount")}
     ELSE UNCHANGED pending
  /\ Quiet
  /\ UNCHANGED <<channelVars, detailVars, selectedPR, listVars, revision,
                 contextVars>>

\* the onMount hook of a panel definition
onMount(p) ==
  /\ p \in {"history", "prs"}
  /\ IF hasSlice[sliceOf(p)] /\ ~sliceLoading[sliceOf(p)]
     THEN /\ Cardinality(pending \cup {Refresh(p, "onMount")}) <= MaxPending
          /\ pending' = pending \cup {Refresh(p, "onMount")}
     ELSE UNCHANGED pending
  /\ Quiet
  /\ UNCHANGED <<channelVars, detailVars, selectedPR, listVars, revision,
                 contextVars>>

\* does the caller await refresh() inside try/catch
catches(via) == via \in {"handler", "button"}

\* the host resolves a refresh() promise
RefreshResolve(r) ==
  /\ r \in pending
  /\ pending' = pending \ {r}
  /\ outcome' = "resolved"
  /\ lastEvent' = Null /\ invoked' = {}
  /\ UNCHANGED <<channelVars, detailVars, selectedPR, listVars, revision,
                 contextVars, fetching, formatVars, effectVars>>

\* the host rejects a refresh() promise: the caller's catch logs it, or the
\* rejection leaves the package through the caller's own promise
RefreshReject(r) ==
  /\ r \in pending
  /\ pending' = pending \ {r}
  /\ outcome' = IF catches(r.via) THEN "logged" ELSE "propagated"
  /\ lastEvent' = Null /\ invoked' = {}
  /\ UNCHANGED <<channelVars, detailVars, selectedPR, listVars, revision,
                 contextVars, fetching, formatVars, effectVars>>

----------------------------------------------------------------------------
(* The host changes the context a panel is rendered with *)

HostUpdate ==
  /\ Quiet
  /\ UNCHANGED <<channelVars, detailVars, selectedPR, listVars, revision,
                 pending>>

\* context.currentScope.repository
HostSetRepository(b) ==
  /\ repository' = b
  /\ HostUpdate
  /\ UNCHANGED <<hasSlice, sliceDefined, sliceLoading, commits, pullRequests,
                 gitConfig>>

\* what context.hasSlice(s) answers
HostSetHasSlice(s, b) ==
  /\ hasSlice' = [hasSlice EXCEPT ![s] = b]
  /\ HostUpdate
  /\ UNCHANGED <<repository, sliceDefined, sliceLoading, commits, pullRequests,
                 gitConfig>>

\* whether context.getSlice(s) returns a slice
HostSetGetSlice(s, b) ==
  /\ sliceDefined' = [sliceDefined EXCEPT ![s] = b]
  /\ HostUpdate
  /\ UNCHANGED <<repository, hasSlice, sliceLoading, commits, pullRequests,
                 gitConfig>>

\* what context.isSliceLoading(s) answers
HostSetLoading(s, b) ==
  /\ sliceLoading' = [sliceLoading EXCEPT ![s] = b]
  /\ HostUpdate
  /\ UNCHANGED <<repository, hasSlice, sliceDefined, commits, pullRequests,
                 gitConfig>>

\* the data of the 'commits' slice
HostSetCommits(d) ==
  /\ commits' = d
  /\ HostUpdate
  /\ UNCHANGED <<repository, hasSlice, sliceDefined, sliceLoading,
                 pullRequests, gitConfig>>

\* the data of the 'pullRequests' slice
HostSetPullRequests(d) ==
  /\ pullRequests' = d
  /\ HostUpdate
  /\ UNCHANGED <<repository, hasSlice, sliceDefined, sliceLoading, commits,
                 gitConfig>>

\* the data of the 'gitConfig' slice
HostSetConfig(b) ==
  /\ gitConfig' = b
  /\ HostUpdate
  /\ UNCHANGED <<repository, hasSlice, sliceDefined, sliceLoading, commits,
                 pullRequests>>

----------------------------------------------------------------------------
(* Spec: the selection flow. Commit History, Commit Detail, Pull Requests   *)
(* and PR Detail share one channel; the context is the default one.         *)

FlowPanels == {"history", "detail", "prs", "prDetail"}

Next ==
  \/ \E p \in FlowPanels : Mount(p)
  \/ \E p \in FlowPanels : Unmount(p)
  \/ \E e \in CommitDetailEvents \cup PullRequestEvents : HostEmit(e)
  \/ handleClose
  \/ handleBack
  \/ \E i \in 1..MaxLen : CommitCardClick(i)
  \/ \E i \in 1..MaxLen : handlePRClick(i)
  \/ \E v \in {"open", "closed", "all"} : FilterClick(v)

Spec == Init /\ [][Next]_vars

----------------------------------------------------------------------------
(* SpecLists: the list panels, their setting events and refresh requests,   *)
(* with the default context.                                                *)

Settle ==
  \/ \E r \in pending : RefreshResolve(r)
  \/ \E r \in pending : RefreshReject(r)

NextLists ==
  \/ \E p \in ListPanels : Mount(p)
  \/ \E p \in ListPanels : Unmount(p)
  \/ \E e \in SettingEvents \cup RefreshEvents : HostEmit(e)
  \/ \E v \in {"open", "closed", "all"} : FilterClick(v)
  \/ \E m \in {"summary", "detailed"} : ViewModeClick(m)
  \/ \E p \in ListPanels : handleRefresh(p)
  \/ \E p \in {"history", "prs"} : onMount(p)
  \/ Settle
  \/ \E i \in 1..MaxLen : CommitCardClick(i)
  \/ \E i \in 1..MaxLen : handlePRClick(i)

SpecLists == Init /\ [][NextLists]_vars

----------------------------------------------------------------------------
(* SpecLifecycle: every panel mounts and unmounts on one channel; one event *)
(* of each type a panel listens to is emitted.                              *)

LifecycleEvents ==
  { HostEvent("git-panels.commit-detail:loading", With("hash", <<"a","1">>)),
    HostEvent("git-panels.commit-detail:loaded",
              With("commit", CHOOSE c \in CommitDetails : Len(c.hash) > 8)),
    HostEvent("git-panels.commit-detail:error", With("error", "X")),
    HostEvent("git-panels.pull-request:selected",
              With("pr", CHOOSE pr \in PullRequests : pr.id = 2)),
    HostEvent("git-panels.commit-history:set-limit", With("limit", 2)),
    HostEvent("git-panels.pull-requests:set-filter", With("filter", "closed")),
    HostEvent("git-panels.config:set-view", With("mode", "detailed")) }
  \cup RefreshEvents

NextLifecycle ==
  \/ \E p \in Panels : Mount(p)
  \/ \E p \in Panels : Unmount(p)
  \/ \E e \in LifecycleEvents : HostEmit(e)
  \/ Settle

SpecLifecycle == Init /\ [][NextLifecycle]_vars

----------------------------------------------------------------------------
(* SpecVocabulary: every panel mounts and unmounts on one channel and every *)
(* button that emits an event is clicked; the host sends the two events     *)
(* that bring up the Close and the Back button.                             *)

VocabularyEvents ==
  {e \in LifecycleEvents : e.type \in {"git-panels.commit-detail:loaded",
                                       "git-panels.pull-request:selected"}}

NextVocabulary ==
  \/ \E p \in Panels : Mount(p)
  \/ \E p \in Panels : Unmount(p)
  \/ \E e \in VocabularyEvents : HostEmit(e)
  \/ handleClose
  \/ handleBack
  \/ \E i \in 1..MaxLen : CommitCardClick(i)
  \/ \E i \in 1..MaxLen : handlePRClick(i)

SpecVocabulary == Init /\ [][NextVocabulary]_vars

----------------------------------------------------------------------------
(* SpecContext: one list panel is rendered, as in a story, and the host     *)
(* changes the answers of the context for the slice that panel reads,      *)
(* calls the onMount hook of the panel's definition and asks for refreshes. *)

InitStory ==
  /\ InitPanelState
  /\ InitContext
  /\ revision \in {"two", "three"}
  /\ \E p \in ListPanels :
       /\ mounted = [q \in Panels |-> q = p]
       /\ handlers = subscriptions(p)
       /\ unsubscribers = [q \in Panels |-> IF q = p THEN subscriptions(p) ELSE {}]
  /\ pending = {}
  /\ outcome = "none"
  /\ lastEvent = Null
  /\ invoked = {}
  /\ fetching = {}
  /\ InitEffects
  /\ InitFormat

rendered(s) == \E p \in ListPanels : mounted[p] /\ sliceOf(p) = s

NextContext ==
  \/ \E b \in BOOLEAN : HostSetRepository(b)
  \/ \E s \in Slices, b \in BOOLEAN : rendered(s) /\ HostSetHasSlice(s, b)
  \/ \E s \in Slices, b \in BOOLEAN : rendered(s) /\ HostSetGetSlice(s, b)
  \/ \E s \in Slices, b \in BOOLEAN : rendered(s) /\ HostSetLoading(s, b)
  \/ \E d \in {Null, Some(<<>>), Some(SampleCommits)} :
       rendered("commits") /\ HostSetCommits(d)
  \/ \E d \in {Null, Some(<<>>), Some(SamplePullRequests)} :
       rendered("pullRequests") /\ HostSetPullRequests(d)
  \/ \E b \in BOOLEAN : rendered("gitConfig") /\ HostSetConfig(b)
  \/ \E v \in {"open", "closed", "all"} : FilterClick(v)
  \/ \E p \in {"history", "prs"} : rendered(sliceOf(p)) /\ onMount(p)
  \/ Settle
  \/ \E p \in ListPanels : handleRefresh(p)
  \/ \E e \in RefreshEvents : HostEmit(e)

SpecContext == InitStory /\ [][NextContext]_vars

----------------------------------------------------------------------------
(* SpecSort: the Commit History panel over every commits array of at most   *)
(* MaxLen entries and every limit a set-limit event can set.                *)

InitSort ==
  /\ InitPanelState
  /\ InitContext
  /\ revision = "two"
  /\ mounted = [q \in Panels |-> q = "history"]
  /\ handlers = subscriptions("history")
  /\ unsubscribers =
       [q \in Panels |-> IF q = "history" THEN subscriptions("history") ELSE {}]
  /\ pending = {}
  /\ outcome = "none"
  /\ lastEvent = Null
  /\ invoked = {}
  /\ fetching = {}
  /\ InitEffects
  /\ InitFormat

NextSort ==
  \/ \E a \in SeqsUpTo(CommitInfos, MaxLen) : HostSetCommits(Some(a))
  \/ \E n \in LimitPayloads \cup {3} :
       HostEmit(HostEvent("git-panels.commit-history:set-limit", With("limit", n)))

SpecSort == InitSort /\ [][NextSort]_vars

----------------------------------------------------------------------------
(* SpecEmitter: the emitter of createMockEvents used directly.  A handler   *)
(* function is named by the panel whose closure it is; a caller may         *)
(* register one function for several types and more than once, keeps the    *)
(* disposers on() returned, and may run them at any time, again and again.  *)

EmitterTypes ==
  {"git-panels.commit-detail:loading", "git-panels.pull-request:selected"}
EmitterHandlers == {"detail", "prDetail"}

\* a disposer that deletes the whole Set of its type
unsubscribe_ClearsType(d) ==
  /\ d \in unsubscribers[d.panel]
  /\ handlers' = {h \in handlers : h.type # d.type}
  /\ Quiet
  /\ UNCHANGED <<mounted, unsubscribers, detailVars, selectedPR, listVars,
                 revision, contextVars, pending>>

\* events.on(type, handler): the handler joins the Set of the type (a Set
\* holds a function once) and the caller receives the disposer
on(type, h) ==
  /\ handlers' = handlers \cup {[type |-> type, panel |-> h]}
  /\ unsubscribers' = [unsubscribers EXCEPT
                         ![h] = @ \cup {[type |-> type, panel |-> h]}]
  /\ Quiet
  /\ UNCHANGED <<mounted, detailVars, selectedPR, listVars, revision,
                 contextVars, pending>>

\* a disposer on() returned is run: handlers.get(type)?.delete(handler)
unsubscribe(d) ==
  /\ d \in unsubscribers[d.panel]
  /\ handlers' = handlers \ {d}
  /\ Quiet
  /\ UNCHANGED <<mounted, unsubscribers, detailVars, selectedPR, listVars,
                 revision, contextVars, pending>>

\* events.off(type, handler): handlers.get(type)?.delete(handler)
off(type, h) ==
  /\ handlers' = handlers \ {[type |-> type, panel |-> h]}
  /\ Quiet
  /\ UNCHANGED <<mounted, unsubscribers, detailVars, selectedPR, listVars,
                 revision, contextVars, pending>>

EmitterEvents ==
  {e \in LifecycleEvents \cup RefreshEvents :
     e.type \in EmitterTypes \cup {"git-panels.config:refresh"}}

NextEmitter ==
  \/ \E t \in EmitterTypes, h \in EmitterHandlers : on(t, h)
  \/ \E t \in EmitterTypes, h \in EmitterHandlers :
       unsubscribe([type |-> t, panel |-> h])
  \/ \E t \in EmitterTypes, h \in EmitterHandlers : off(t, h)
  \/ \E e \in EmitterEvents : HostEmit(e)

SpecEmitter == Init /\ [][NextEmitter]_vars

----------------------------------------------------------------------------
(* SpecRace: Commit History and Commit Detail on one channel with a host    *)
(* that answers every 'git-panels.commit:selected' event: it emits          *)
(* ':loading' for the hash at once and ':loaded' or ':error' when its fetch *)
(* ends; fetches of different hashes end in any order.                      *)

\* the GitCommitDetail the host loads for a commit of the slice
detailOf(c) ==
  [hash |-> c.hash, message |-> c.message,
   stats |-> [additions |-> 1, deletions |-> 0, total |-> 1]]

\* the commit of the slice with hash h
commitOf(h) == CHOOSE c \in CommitInfos : c.hash = h

\* the host has not yet handled the selection the last step emitted
selectionUnhandled ==
  lastEvent # Null /\ Val(lastEvent).type = "git-panels.commit:selected"

\* the host emits e; only Commit Detail listens to the events of the host
HostAnswer(e) ==
  /\ fanOut(e)
  /\ DeliverDetail(e)
  /\ UNCHANGED <<selectedPR, listVars, pending>>

\* the host hears the selection, starts to fetch the commit and says so
HostStartFetch ==
  /\ selectionUnhandled
  /\ fetching' = fetching \cup {Val(Val(lastEvent).payload.hash)}
  /\ HostAnswer(HostEvent("git-panels.commit-detail:loading",
                          With("hash", Val(Val(lastEvent).payload.hash))))

\* the fetch of hash h ends with the commit
HostRespondLoaded(h) ==
  /\ ~selectionUnhandled
  /\ h \in fetching
  /\ fetching' = fetching \ {h}
  /\ HostAnswer(HostEvent("git-panels.commit-detail:loaded",
                          With("commit", detailOf(commitOf(h)))))

\* the fetch of hash h fails
HostRespondError(h) ==
  /\ ~selectionUnhandled
  /\ h \in fetching
  /\ fetching' = fetching \ {h}
  /\ HostAnswer(HostEvent("git-panels.commit-detail:error",
                          [With("hash", h) EXCEPT !.error = Some("X")]))

InitRace ==
  /\ InitPanelState
  /\ InitContext
  /\ revision = "two"
  /\ mounted = [q \in Panels |-> q \in {"history", "detail"}]
  /\ handlers = subscriptions("history") \cup subscriptions("detail")
  /\ unsubscribers =
       [q \in Panels |-> IF q \in {"history", "detail"} THEN subscriptions(q)
                         ELSE {}]
  /\ pending = {}
  /\ outcome = "none"
  /\ lastEvent = Null
  /\ invoked = {}
  /\ fetching = {}
  /\ InitEffects
  /\ InitFormat

NextRace ==
  \/ \E i \in 1..MaxLen : ~selectionUnhandled /\ CommitCardClick(i)
  \/ HostStartFetch
  \/ \E h \in fetching : HostRespondLoaded(h)
  \/ \E h \in fetching : HostRespondError(h)
  \/ ~selectionUnhandled /\ handleClose
  \/ ~selectionUnhandled /\ Unmount("detail")
  \/ Mount("detail")

SpecRace == InitRace /\ [][NextRace]_vars

----------------------------------------------------------------------------
(* SpecFilter: the Pull Requests panel over every pullRequests array of at  *)
(* most MaxLen entries, with its filter buttons and set-filter events.      *)

InitFilter ==
  /\ InitPanelState
  /\ InitContext
  /\ revision \in {"two", "three"}
  /\ mounted = [q \in Panels |-> q = "prs"]
  /\ handlers = subscriptions("prs")
  /\ unsubscribers =
       [q \in Panels |-> IF q = "prs" THEN subscriptions("prs") ELSE {}]
  /\ pending = {}
  /\ outcome = "none"
  /\ lastEvent = Null
  /\ invoked = {}
  /\ fetching = {}
  /\ InitEffects
  /\ InitFormat

NextFilter ==
  \/ \E a \in SeqsUpTo(PullRequests, MaxLen) : HostSetPullRequests(Some(a))
  \/ \E v \in {"open", "closed", "all"} : FilterClick(v)
  \/ \E f \in FilterPayloads :
       HostEmit(HostEvent("git-panels.pull-requests:set-filter", With("filter", f)))

SpecFilter == InitFilter /\ [][NextFilter]_vars

----------------------------------------------------------------------------
(* Formatters.  Instants are whole seconds since the origin of getTime;     *)
(* Math.floor(ms / (1000 * 60)) of a difference in milliseconds is the      *)
(* floor of its whole seconds divided by 60.                                *)

\* the date strings new Date() parses
ValidDates ==
  {"2024-01-01T00:00:00Z", "2024-01-01T12:00:00Z",
   "2024-01-01T13:00:00+01:00", "2024-01-02T00:00:00Z"}

\* new Date(s).getTime() in seconds, Null for NaN (an unparsable string)
parseDate(s) == IF s \in ValidDates THEN Some(getTime(s) * 3600) ELSE Null

\* a count that always takes the plural form
plural_Always(n, unit) == ToString(n) \o " " \o unit \o "s ago"

\* `${n} ${unit}${n === 1 ? '' : 's'} ago`
plural(n, unit) ==
  ToString(n) \o " " \o unit \o (IF n = 1 THEN "" ELSE "s") \o " ago"

\* formatRelativeTime in which the second day, not the first, is 'Yesterday'
formatRelativeTime_YesterdayIsDayTwo(str, t) ==
  IF ~truthy(str) THEN "Unknown"
  ELSE IF parseDate(Val(str)) = Null THEN "Unknown"
  ELSE LET diff == t - Val(parseDate(Val(str)))
           minutes == diff \div 60
           hours == minutes \div 60
           days == hours \div 24
           months == days \div 30
           years == months \div 12
       IN  IF minutes < 1 THEN "Just now"
           ELSE IF minutes < 60 THEN plural(minutes, "minute")
           ELSE IF hours < 24 THEN plural(hours, "hour")
           ELSE IF days = 2 THEN "Yesterday"
           ELSE IF days < 30 THEN ToString(days) \o " days ago"
           ELSE IF months < 12 THEN plural(months, "month")
           ELSE plural(years, "year")

\* formatRelativeTime(dateStr) called at instant t
formatRelativeTime(str, t) ==
  IF ~truthy(str) THEN "Unknown"
  ELSE IF parseDate(Val(str)) = Null THEN "Unknown"
  ELSE LET diff == t - Val(parseDate(Val(str)))
           minutes == diff \div 60
           hours == minutes \div 60
           days == hours \div 24
           months == days \div 30
           years == months \div 12
       IN  IF minutes < 1 THEN "Just now"
           ELSE IF minutes < 60 THEN plural(minutes, "minute")
           ELSE IF hours < 24 THEN plural(hours, "hour")
           ELSE IF days = 1 THEN "Yesterday"
           ELSE IF days < 30 THEN ToString(days) \o " days ago"
           ELSE IF months < 12 THEN plural(months, "month")
           ELSE plural(years, "year")

\* formatDate without the Number.isNaN test: every comparison with NaN is
\* false and the last template is reached
formatDate_NoNaNTest(str, t) ==
  IF ~truthy(str) THEN "Unknown"
  ELSE LET date == parseDate(Val(str))
           diffDays == IF date = Null THEN Null
                       ELSE Some((t - Val(date)) \div 86400)
       IN  IF diffDays = Null THEN "NaN years ago"
           ELSE IF Val(diffDays) = 0 THEN "Today"
           ELSE IF Val(diffDays) = 1 THEN "Yesterday"
           ELSE IF Val(diffDays) < 7 THEN ToString(Val(diffDays)) \o " days ago"
           ELSE IF Val(diffDays) < 30
                THEN ToString(Val(diffDays) \div 7) \o " weeks ago"
           ELSE IF Val(diffDays) < 365
                THEN ToString(Val(diffDays) \div 30) \o " months ago"
           ELSE ToString(Val(diffDays) \div 365) \o " years ago"

\* formatDate in which the seventh day still counts in days
formatDate_WeekFromDay8(str, t) ==
  IF ~truthy(str) THEN "Unknown"
  ELSE LET date == parseDate(Val(str))
           diffDays == IF date = Null THEN Null
                       ELSE Some((t - Val(date)) \div 86400)
       IN  IF diffDays = Null THEN "Unknown"
           ELSE IF Val(diffDays) = 0 THEN "Today"
           ELSE IF Val(diffDays) = 1 THEN "Yesterday"
           ELSE IF Val(diffDays) <= 7 THEN ToString(Val(diffDays)) \o " days ago"
           ELSE IF Val(diffDays) < 30
                THEN ToString(Val(diffDays) \div 7) \o " weeks ago"
           ELSE IF Val(diffDays) < 365
                THEN ToString(Val(diffDays) \div 30) \o " months ago"
           ELSE ToString(Val(diffDays) \div 365) \o " years ago"

\* formatDate(dateString) called at instant t; diffDays is NaN when the
\* string does not parse
formatDate(str, t) ==
  IF ~truthy(str) THEN "Unknown"
  ELSE LET date == parseDate(Val(str))
           diffDays == IF date = Null THEN Null
                       ELSE Some((t - Val(date)) \div 86400)
       IN  IF diffDays = Null THEN "Unknown"
           ELSE IF Val(diffDays) = 0 THEN "Today"
           ELSE IF Val(diffDays) = 1 THEN "Yesterday"
           ELSE IF Val(diffDays) < 7 THEN ToString(Val(diffDays)) \o " days ago"
           ELSE IF Val(diffDays) < 30
                THEN ToString(Val(diffDays) \div 7) \o " weeks ago"
           ELSE IF Val(diffDays) < 365
                THEN ToString(Val(diffDays) \div 30) \o " months ago"
           ELSE ToString(Val(diffDays) \div 365) \o " years ago"

\* the arguments a caller passes: undefined / null, '', a string that is
\* not a date, and the dates of the slices
DateArguments ==
  {Null, Some(""), Some("not a date")} \cup {Some(d) : d \in ValidDates}

Day == 86400

\* elapsed times at and around every bucket boundary, in seconds
Elapsed ==
  {0, 1, 59, 60, 61, 119, 120, 3540, 3599, 3600, 3660, 7199, 7200,
   82800, 86399, 86400, 90000, 129600, 172799, 172800}
  \cup {d * Day : d \in {6, 7, 8, 13, 14, 29, 30, 31, 59, 60, 61, 359, 360,
                         361, 364, 365, 366}}
  \cup {d * Day - 1 : d \in {7, 30, 60, 360, 365}}
  \cup UNION {{y * 360 * Day - 1, y * 360 * Day, y * 365 * Day - 1,
               y * 365 * Day} : y \in 1..MaxYears}

\* the instants at which a formatter is called: after the newest date, and
\* two before it (the date is then in the future)
Instants == {Day + e : e \in Elapsed} \cup {0, Day \div 2}

\* a call of formatRelativeTime(dateStr)
CallFormatRelativeTime ==
  /\ returned' = Some([fn |-> "formatRelativeTime",
                       text |-> formatRelativeTime(dateStr, now)])
  /\ UNCHANGED <<panelVars, now, dateStr>>

\* a call of formatDate(dateStr)
CallFormatDate ==
  /\ returned' = Some([fn |-> "formatDate",
                       text |-> formatDate(dateStr, now)])
  /\ UNCHANGED <<panelVars, now, dateStr>>

\* SpecFormat: a formatter is called with every argument at every instant
InitFormatters ==
  /\ InitPanelState
  /\ InitContext
  /\ revision = "two"
  /\ mounted = [q \in Panels |-> FALSE]
  /\ handlers = {}
  /\ unsubscribers = [q \in Panels |-> {}]
  /\ pending = {}
  /\ outcome = "none"
  /\ lastEvent = Null
  /\ invoked = {}
  /\ fetching = {}
  /\ InitEffects
  /\ now \in Instants
  /\ dateStr \in DateArguments
  /\ returned = Null

NextFormat ==
  \/ CallFormatRelativeTime
  \/ CallFormatDate

SpecFormat == InitFormatters /\ [][NextFormat]_vars

----------------------------------------------------------------------------
(* SpecEffect: the subscription effect of each panel under React's rules.   *)
(* A host renders a panel with an emitter object as its events prop,       *)
(* re-renders it with another emitter or another context object, and        *)
(* removes it. An effect runs after the first render and after a render in  *)
(* which one of its dependencies has changed; before it runs again, and on  *)
(* unmount, the cleanup the previous run returned is called.                *)

\* the emitter objects a host passes as the events prop
Emitters == {"first", "second"}

\* the dependency list of the subscription effect of panel p
deps(p) ==
  IF p \in {"detail", "prDetail"} THEN {"events"} ELSE {"events", "context"}

\* the runs whose closures for panel p no emitter holds
unusedRuns(p) ==
  {r \in 1..MaxRuns : \A h \in registry : h.panel = p => h.run # r}

\* the handlers one run of the effect of panel p hands to em.on(type, ...):
\* a new closure per type in the panel's list
effectHandlers(p, em, r) ==
  {[emitter |-> em, type |-> t, panel |-> p, run |-> r] : t \in Listens(p)}

\* an effect that returns no cleanup
effectCleanup_None(reg, p) == reg

\* the cleanup the effect returned: every disposer deletes its handler from
\* the Set of its type on the emitter on() was called on
effectCleanup(reg, p) == reg \ disposers[p]

\* the effect of panel p runs with emitter em on the handler Sets reg
effectRun(reg, p, em) ==
  /\ unusedRuns(p) # {}
  /\ LET hs == effectHandlers(p, em, CHOOSE r \in unusedRuns(p) : TRUE)
     IN  /\ registry' = reg \cup hs
         /\ disposers' = [disposers EXCEPT ![p] = hs]

\* the state outside the effect is not touched by a render of this section
EffectFrame ==
  UNCHANGED <<channelVars, detailVars, selectedPR, listVars, revision,
              contextVars, pending, outcome, lastEvent, invoked, fetching,
              formatVars>>

\* first render of panel p with emitter em: the effect runs
Render(p, em) ==
  /\ eventsProp[p] = Null
  /\ eventsProp' = [eventsProp EXCEPT ![p] = Some(em)]
  /\ effectRun(registry, p, em)
  /\ EffectFrame

\* re-render of panel p with another emitter as events: 'events' is in
\* every dependency list, so the cleanup and then the effect run
RerenderEvents(p, em) ==
  /\ eventsProp[p] # Null /\ Val(eventsProp[p]) # em
  /\ eventsProp' = [eventsProp EXCEPT ![p] = Some(em)]
  /\ effectRun(effectCleanup(registry, p), p, em)
  /\ EffectFrame

\* re-render of panel p with another context object: the cleanup and the
\* effect run only where 'context' is a dependency
RerenderContext(p) ==
  /\ eventsProp[p] # Null
  /\ IF "context" \in deps(p)
     THEN effectRun(effectCleanup(registry, p), p, Val(eventsProp[p]))
     ELSE UNCHANGED <<registry, disposers>>
  /\ UNCHANGED eventsProp
  /\ EffectFrame

\* panel p is removed: the cleanup of its last effect run is called
Unrender(p) ==
  /\ eventsProp[p] # Null
  /\ eventsProp' = [eventsProp EXCEPT ![p] = Null]
  /\ registry' = effectCleanup(registry, p)
  /\ disposers' = [disposers EXCEPT ![p] = {}]
  /\ EffectFrame

NextEffect ==
  \/ \E p \in Panels, em \in Emitters : Render(p, em)
  \/ \E p \in Panels, em \in Emitters : RerenderEvents(p, em)
  \/ \E p \in Panels : RerenderContext(p)
  \/ \E p \in Panels : Unrender(p)

SpecEffect == Init /\ [][NextEffect]_vars

----------------------------------------------------------------------------
(* Properties *)

\* the last step emitted an event of this type
emitted(type) == lastEvent # Null /\ Val(lastEvent).type = type

\* t is the first line of message m: a prefix without a line break that ends
\* where m ends or where its first line break is
IsFirstLineOf(t, m) ==
  /\ Len(t) <= Len(m)
  /\ \A i \in 1..Len(t) : t[i] = m[i] /\ t[i] # "\n"
  /\ Len(t) < Len(m) => m[Len(t) + 1] = "\n"

\* h is the first 8 characters of hash (all of it if it is shorter)
IsHashPrefixOf(h, hash) ==
  /\ Len(h) = Min(8, Len(hash))
  /\ \A i \in 1..Len(h) : h[i] = hash[i]

\* the loaded display of Commit Detail shows commit c
ShowsCommit(c) ==
  /\ CommitDetailDisplay = "loaded"
  /\ IsFirstLineOf(shownTitle, c.message)
  /\ IsHashPrefixOf(shownHash, c.hash)
  /\ shownStats.additions = c.stats.additions
  /\ shownStats.deletions = c.stats.deletions

\* a ':loaded' event with a commit follows a ':loading' event
LoadedAfterLoading ==
  /\ mounted["detail"]
  /\ emitted("git-panels.commit-detail:loading")
  /\ emitted("git-panels.commit-detail:loaded")'
  /\ Val(lastEvent').payload.commit # Null

\* an ':error' event with an error string follows a ':loaded' event that put
\* the panel in the loaded display
ErrorAfterLoaded ==
  /\ mounted["detail"]
  /\ emitted("git-panels.commit-detail:loaded")
  /\ CommitDetailDisplay = "loaded"
  /\ emitted("git-panels.commit-detail:error")'
  /\ Val(lastEvent').payload.error # Null

\* C1 as stated: ':loading' then ':loaded' {commit C} leaves Commit Detail in
\* the loaded display showing C (first line of the message, first 8
\* characters of the hash, the stats), and a following ':error' with error X
\* leaves it in the error display with message X.
C1_LoadedThenErrorShowsX ==
  [][ /\ LoadedAfterLoading => ShowsCommit(Val(Val(lastEvent).payload.commit))'
      /\ ErrorAfterLoaded =>
           /\ CommitDetailDisplay' = "error"
           /\ shownError' = Val(Val(lastEvent').payload.error)
    ]_vars

\* C1 amended: as C1, with the error display showing X when X is not empty
\* and the default message 'Failed to load commit' when X is the empty
\* string.
C1_LoadedThenError ==
  [][ /\ LoadedAfterLoading => ShowsCommit(Val(Val(lastEvent).payload.commit))'
      /\ ErrorAfterLoaded =>
           /\ CommitDetailDisplay' = "error"
           /\ shownError' = IF Val(Val(lastEvent').payload.error) # ""
                            THEN Val(Val(lastEvent').payload.error)
                            ELSE "Failed to load commit"
    ]_vars

\* an ':error' event with error "X" has put a panel that holds a loaded
\* commit in the error display
C1_Witness ==
  /\ mounted["detail"]
  /\ emitted("git-panels.commit-detail:error")
  /\ Val(lastEvent).payload.error = Some("X")
  /\ selectedCommit # Null
  /\ CommitDetailDisplay = "error"

----------------------------------------------------------------------------
\* the state of panel p has its useState defaults
HasDefaultState(p) ==
  CASE p = "detail"   -> selectedCommit = Null /\ ~isLoading /\ error = Null
    [] p = "prDetail" -> selectedPR = Null
    [] p = "history"  -> limit = 25 /\ selectedHash = Null
    [] p = "prs"      -> filter = "open"
    [] p = "config"   -> viewMode = "summary"

\* C2: once a panel is unmounted every disposer it received has been called
\* (no handler of it is left on the channel), so an emit of any event calls
\* none of its handlers and its state stays what unmounting left.
C2_UnmountedPanelHearsNothing ==
  \A p \in Panels :
    ~mounted[p] =>
      /\ unsubscribers[p] = {}
      /\ \A h \in handlers : h.panel # p
      /\ \A h \in invoked : h.panel # p
      /\ HasDefaultState(p)

\* Commit History was mounted (its refresh handler has a refresh() in
\* flight), is unmounted now, and a refresh event has just been emitted
C2_Witness ==
  /\ ~mounted["history"]
  /\ Refresh("history", "handler") \in pending
  /\ emitted("git-panels.commit-history:refresh")
  /\ invoked = {}

----------------------------------------------------------------------------
\* the displays that only tell that there is nothing to show: the message
\* for a missing slice and the message for a missing repository
StateMessages == {"unavailable", "norepo"}

\* C3: a list panel whose hasSlice(slice) is false shows only a state
\* message, never the loading display, the empty result or list content,
\* whatever isSliceLoading answers.
C3_NoSliceNeverLoadingOrList ==
  \A p \in ListPanels :
    (mounted[p] /\ ~hasSlice[sliceOf(p)]) =>
      /\ ListDisplay(p) \in StateMessages
      /\ repository => ListDisplay(p) = "unavailable"

\* C4: a list panel for which getSlice(slice) returns undefined shows the
\* same unavailable display as one whose hasSlice(slice) is false, not the
\* loading display and not the empty-result display.
C4_UndefinedSliceIsUnavailable ==
  \A p \in ListPanels :
    (mounted[p] /\ ~sliceDefined[sliceOf(p)]) =>
      /\ ListDisplay(p) \in StateMessages
      /\ repository => ListDisplay(p) = "unavailable"

\* C5: a rejected refresh() is caught where it was awaited: the rejection
\* is logged, never handed on to the host, and no panel state changes.
C5_RejectionStaysLocal ==
  [][ outcome' \in {"logged", "propagated"} =>
        /\ outcome' = "logged"
        /\ UNCHANGED <<detailVars, selectedPR, listVars>>
    ]_vars

----------------------------------------------------------------------------
\* C6: the displayed commits are the first min(limit, n) entries of the
\* slice, in non-increasing order of parsed timestamp, and entries with
\* equal timestamps keep the relative order they have in the slice.
C6_SortedNewestFirstStable ==
  LET a == readCommits
      idx == sortedOrder(a, limit)
      n == Len(sortedCommits)
  IN  /\ Len(idx) = n
      /\ {idx[i] : i \in 1..n} = 1..Min(limit, Len(a))
      /\ \A i \in 1..n : sortedCommits[i] = a[idx[i]]
      /\ \A i \in 1..n : \A j \in 1..n :
           i < j =>
             /\ getTime(sortedCommits[i].date) >= getTime(sortedCommits[j].date)
             /\ getTime(sortedCommits[i].date) = getTime(sortedCommits[j].date)
                  => idx[i] < idx[j]

\* three commits are displayed, a newer one was moved in front of two that
\* have the same timestamp under different date strings
C6_Witness ==
  LET idx == sortedOrder(readCommits, limit)
  IN  /\ Len(sortedCommits) = 3
      /\ idx = <<3, 1, 2>>
      /\ getTime(readCommits[1].date) = getTime(readCommits[2].date)
      /\ readCommits[1].date # readCommits[2].date

----------------------------------------------------------------------------
\* the pull request carries a merge timestamp
HasMergeTimestamp(pr) == pr.merged_at # Null /\ pr.merged_at # Some("null")

\* C7: every closed pull request shown in the Pull Requests list or in the
\* PR Detail panel is labelled 'Merged' if it has a merge timestamp and
\* 'Closed' if merged_at is null or absent.
C7_ClosedIsMergedOrClosed ==
  /\ (mounted["prs"] /\ PullRequestsDisplay = "list") =>
       \A i \in 1..Len(filteredPullRequests) :
         LET pr == filteredPullRequests[i]
         IN  pr.state = "closed" =>
               cardLabel(pr) = IF HasMergeTimestamp(pr) THEN "Merged" ELSE "Closed"
  /\ (mounted["prDetail"] /\ PRDetailDisplay = "loaded") =>
       LET pr == Val(selectedPR)
       IN  pr.state = "closed" =>
             statusLabel(pr) = IF HasMergeTimestamp(pr) THEN "Merged" ELSE "Closed"

----------------------------------------------------------------------------
\* the pull requests of the slice a filter value stands for, in slice order
PullRequestsOfState(f) ==
  SelectSeq(readPullRequests, LAMBDA pr : f = "all" \/ pr.state = f)

\* C8: a set-filter event carrying 'all', 'open' or 'closed' makes that
\* value the active filter of the Pull Requests panel and the displayed list
\* the pull requests of that state in slice order; any other payload leaves
\* the filter unchanged.
C8_SetFilterTakesToolEnum ==
  [][ (mounted["prs"] /\ emitted("git-panels.pull-requests:set-filter")') =>
        LET f == Val(lastEvent').payload.filter
        IN  IF f # Null /\ Val(f) \in {"all", "open", "closed"}
            THEN /\ filter' = Val(f)
                 /\ filteredPullRequests' = PullRequestsOfState(Val(f))
            ELSE filter' = filter
    ]_vars

----------------------------------------------------------------------------
\* C9: a 'git-panels.pull-request:deselected' event on the channel clears
\* the selection of the PR Detail panel: it shows 'No Pull Request Selected'.
C9_DeselectedEventClearsSelection ==
  (mounted["prDetail"] /\ emitted("git-panels.pull-request:deselected"))
    => PRDetailDisplay = "empty"

----------------------------------------------------------------------------
DetailStates == {"empty", "loading", "loaded", "error"}

\* the last step emitted an event of this type that carries the field
emittedWith(type, field) ==
  emitted(type) /\ Val(lastEvent).payload[field] # Null

\* the Commit Detail panel is the four-state machine: it enters loading on
\* ':loading', loaded on ':loaded' with a commit and error on ':error', and
\* enters these three displays on no other step
CommitDetailMachine ==
  /\ CommitDetailDisplay' \in DetailStates
  /\ (mounted["detail"] /\ emitted("git-panels.commit-detail:loading")')
       => CommitDetailDisplay' = "loading"
  /\ (mounted["detail"] /\ emittedWith("git-panels.commit-detail:loaded", "commit")')
       => CommitDetailDisplay' = "loaded"
  /\ (mounted["detail"] /\ emitted("git-panels.commit-detail:error")')
       => CommitDetailDisplay' = "error"
  /\ (CommitDetailDisplay # "loading" /\ CommitDetailDisplay' = "loading")
       => emitted("git-panels.commit-detail:loading")'
  /\ (CommitDetailDisplay # "loaded" /\ CommitDetailDisplay' = "loaded")
       => emittedWith("git-panels.commit-detail:loaded", "commit")'
  /\ (CommitDetailDisplay # "error" /\ CommitDetailDisplay' = "error")
       => emitted("git-panels.commit-detail:error")'

\* the event types that end in ':loading', ':loaded' and ':error'
LoadingTypes == {"git-panels.commit-detail:loading",
                 "git-panels.pull-request-detail:loading"}
LoadedTypes == {"git-panels.commit-detail:loaded",
                "git-panels.pull-request-detail:loaded"}
ErrorTypes == {"git-panels.commit-detail:error",
               "git-panels.pull-request-detail:error"}

\* C10 as stated: both detail panels are the four-state machine driven by
\* their ':loading', ':loaded' and ':error' events and by nothing else.
C10_BothPanelsFourStateMachine ==
  [][ /\ CommitDetailMachine
      /\ PRDetailDisplay' \in DetailStates
      /\ (PRDetailDisplay # "loading" /\ PRDetailDisplay' = "loading")
           => \E t \in LoadingTypes : emitted(t)'
      /\ (PRDetailDisplay # "loaded" /\ PRDetailDisplay' = "loaded")
           => \E t \in LoadedTypes : emitted(t)'
      /\ (PRDetailDisplay # "error" /\ PRDetailDisplay' = "error")
           => \E t \in ErrorTypes : emitted(t)'
    ]_vars

\* C10 amended: Commit Detail is the four-state machine of the claim; PR
\* Detail has the empty and the loaded display only, and enters loaded on a
\* 'git-panels.pull-request:selected' event with a pr payload and on no
\* other step.
C10_DetailStateMachines ==
  [][ /\ CommitDetailMachine
      /\ PRDetailDisplay' \in {"empty", "loaded"}
      /\ (mounted["prDetail"] /\ emittedWith("git-panels.pull-request:selected", "pr")')
           => PRDetailDisplay' = "loaded"
      /\ (PRDetailDisplay # "loaded" /\ PRDetailDisplay' = "loaded")
           => emittedWith("git-panels.pull-request:selected", "pr")'
    ]_vars

\* an ':error' event has moved Commit Detail to the error display while PR
\* Detail shows a pull request it was sent by a 'selected' event
C10_Witness ==
  /\ mounted["detail"] /\ mounted["prDetail"]
  /\ emitted("git-panels.commit-detail:error")
  /\ CommitDetailDisplay = "error"
  /\ PRDetailDisplay = "loaded"

----------------------------------------------------------------------------
\* the last step was an emit by this source of this type
emittedBy(source, type) ==
  emitted(type) /\ Val(lastEvent).source = source

\* the last step was the Close button of Commit Detail
Closed == emittedBy("git-panels.commit-detail", "git-panels.commit:deselected")

\* the last step was the Back button of PR Detail
WentBack ==
  emittedBy("git-panels.pull-request-detail", "git-panels.pull-request:deselected")

----------------------------------------------------------------------------
\* the last step emitted one of the two terminal events of Commit Detail
TerminalEvent ==
  \/ emitted("git-panels.commit-detail:loaded")
  \/ emitted("git-panels.commit-detail:error")

\* C12: while Commit Detail stays mounted, a step that is not the emit of a
\* ':loaded' or ':error' event (a click in any panel, a ':loading' event, a
\* pull-request event, a mount of another panel) leaves the loading display
\* in place; nothing in the panel ends loading by itself.
C12_LoadingUntilTerminalEvent ==
  [][ (mounted["detail"] /\ mounted["detail"]'
         /\ CommitDetailDisplay = "loading" /\ ~TerminalEvent')
        => CommitDetailDisplay' = "loading"
    ]_vars

\* Commit Detail is still loading right after a click on a commit row
C12_Witness ==
  /\ mounted["detail"]
  /\ CommitDetailDisplay = "loading"
  /\ emitted("git-panels.commit:selected")

----------------------------------------------------------------------------
\* the limits the set_commit_limit tool documents
ToolLimits == 1..100

\* the limit carried by the set-limit event of the last step, Null if none
sentLimit ==
  IF emitted("git-panels.commit-history:set-limit")
  THEN Val(lastEvent).payload.limit ELSE Null

\* C13: the commit limit of a mounted Commit History panel is always within
\* 1..100; a set-limit event whose payload limit is within 1..100 makes that
\* value the limit, and no other step of the mounted panel changes the limit.
C13_LimitWithinToolRange ==
  [][ (mounted["history"] /\ mounted["history"]') =>
        /\ limit' \in ToolLimits
        /\ (sentLimit' # Null /\ Val(sentLimit') \in ToolLimits)
             => limit' = Val(sentLimit')
        /\ ~(sentLimit' # Null /\ Val(sentLimit') \in ToolLimits)
             => limit' = limit
    ]_vars

----------------------------------------------------------------------------
\* the commits of the example: one dated T and one dated a day earlier
CommitAtT == CHOOSE c \in CommitInfos : c.date = "2024-01-02T00:00:00Z"
CommitDayBefore == CHOOSE c \in CommitInfos : c.date = "2024-01-01T00:00:00Z"

\* the event a click on the row of commit c is to emit
SelectedEventOf(c) ==
  Event("git-panels.commit:selected", "git-panels.commit-history",
        With("hash", c.hash))

\* C14: a click on row i of Commit History emits the 'git-panels.commit:
\* selected' event whose payload is {hash} with the hash of the commit shown
\* in row i and no other field; every such event the panel emits is the one
\* of a row it shows; and with the two commits dated T - 1 day and T in the
\* slice and the default limit the rows are [T, T - 1 day].
C14_RowClickEmitsItsHash ==
  [][ /\ \A i \in 1..MaxLen :
           CommitCardClick(i) => lastEvent' = Some(SelectedEventOf(sortedCommits[i]))
      /\ emittedBy("git-panels.commit-history", "git-panels.commit:selected")'
           => \E i \in 1..Len(sortedCommits) :
                lastEvent' = Some(SelectedEventOf(sortedCommits[i]))
      /\ (readCommits = <<CommitDayBefore, CommitAtT>> /\ limit = DEFAULT_LIMIT)
           => sortedCommits = <<CommitAtT, CommitDayBefore>>
    ]_vars

\* the second row of the example has just been clicked
C14_Witness ==
  /\ mounted["history"]
  /\ readCommits = <<CommitDayBefore, CommitAtT>> /\ limit = DEFAULT_LIMIT
  /\ lastEvent = Some(SelectedEventOf(CommitDayBefore))
  /\ sortedCommits[2] = CommitDayBefore
  /\ selectedHash = Some(CommitDayBefore.hash)

----------------------------------------------------------------------------
\* the event a click on the card of pull request pr is to emit
PRSelectedEventOf(pr) ==
  Event("git-panels.pull-request:selected", "git-panels.pull-requests",
        With("pr", pr))

\* C15: a click on card i of the Pull Requests panel emits 'git-panels.
\* pull-request:selected' carrying the whole pull request of that card, and a
\* PR Detail panel mounted on the same channel then shows exactly that pull
\* request, whatever it showed before; a 'selected' event without a pr
\* payload leaves what PR Detail shows unchanged.
C15_DetailShowsLastClickedPR ==
  [][ /\ \A i \in 1..MaxLen :
           handlePRClick(i) =>
             /\ lastEvent' = Some(PRSelectedEventOf(filteredPullRequests[i]))
             /\ mounted["prDetail"] =>
                  /\ PRDetailDisplay' = "loaded"
                  /\ selectedPR' = Some(filteredPullRequests[i])
      /\ (mounted["prDetail"] /\ emitted("git-panels.pull-request:selected")'
            /\ Val(lastEvent').payload.pr = Null)
           => selectedPR' = selectedPR
    ]_vars

\* PR Detail shows the closed pull request whose card was just clicked
C15_Witness ==
  /\ mounted["prs"] /\ mounted["prDetail"]
  /\ emittedBy("git-panels.pull-requests", "git-panels.pull-request:selected")
  /\ selectedPR = Val(lastEvent).payload.pr
  /\ Val(selectedPR).state = "closed"
  /\ PRDetailDisplay = "loaded"

----------------------------------------------------------------------------
\* the one refresh('repository', slice) call the onMount hook of p is to make
MountRefresh(p) == [panel |-> p, via |-> "onMount", slice |-> sliceOf(p)]

\* C16: a call of the onMount hook of the Commit History or the Pull
\* Requests definition adds one refresh('repository', slice) call for the
\* panel's own slice when hasSlice(slice) is true and isSliceLoading(slice)
\* is false, and makes no refresh call otherwise.
C16_OnMountRefreshesOnce ==
  [][ \A p \in {"history", "prs"} :
        onMount(p) =>
          IF hasSlice[sliceOf(p)] /\ ~sliceLoading[sliceOf(p)]
          THEN pending' = pending \cup {MountRefresh(p)}
          ELSE pending' = pending
    ]_vars

\* the hook of Pull Requests has issued its refresh for a slice that is
\* present and not loading
C16_Witness ==
  /\ pending = {MountRefresh("prs")}
  /\ hasSlice["pullRequests"]
  /\ ~sliceLoading["pullRequests"]

----------------------------------------------------------------------------
\* the last call was of formatter fn with a date string that parses
CalledWithDate(fn) ==
  /\ returned # Null /\ Val(returned).fn = fn
  /\ dateStr # Null /\ Val(dateStr) \in ValidDates

\* the time elapsed between the date of the argument and the call
elapsed == now - Val(parseDate(Val(dateStr)))

\* N unit(s) ago, singular exactly for a count of one
Ago(n, unit) ==
  IF n = 1 THEN "1 " \o unit \o " ago"
  ELSE ToString(n) \o " " \o unit \o "s ago"

\* the relative time the buckets of the claim give for elapsed time e
RelativeTimeOf(e) ==
  LET m == e \div 60
      h == m \div 60
      d == h \div 24
      k == d \div 30
      y == k \div 12
  IN  CASE m < 1 -> "Just now"
        [] m >= 1 /\ m < 60 -> Ago(m, "minute")
        [] m >= 60 /\ h < 24 -> Ago(h, "hour")
        [] h >= 24 /\ d = 1 -> "Yesterday"
        [] d > 1 /\ d < 30 -> ToString(d) \o " days ago"
        [] d >= 30 /\ k < 12 -> Ago(k, "month")
        [] k >= 12 -> Ago(y, "year")

\* C17: for a valid date and elapsed time E >= 0, formatRelativeTime returns
\* 'Just now', 'm minute(s) ago', 'h hour(s) ago', 'Yesterday', 'd days
\* ago', 'k month(s) ago' or 'y year(s) ago' by the buckets m < 1, m < 60,
\* h < 24, d = 1, d < 30, k < 12 of the nested floors, in the singular
\* exactly when the count is 1.
C17_RelativeTimeBuckets ==
  (CalledWithDate("formatRelativeTime") /\ elapsed >= 0)
    => Val(returned).text = RelativeTimeOf(elapsed)

\* formatRelativeTime has returned the singular month
C17_Witness ==
  /\ CalledWithDate("formatRelativeTime")
  /\ elapsed >= 30 * Day
  /\ Val(returned).text = "1 month ago"

\* the date label the buckets of the claim give for d whole elapsed days
DateLabelOf(d) ==
  CASE d = 0 -> "Today"
    [] d = 1 -> "Yesterday"
    [] d # 0 /\ d # 1 /\ d < 7 -> ToString(d) \o " days ago"
    [] d >= 7 /\ d < 30 -> ToString(d \div 7) \o " weeks ago"
    [] d >= 30 /\ d < 365 -> ToString(d \div 30) \o " months ago"
    [] d >= 365 -> ToString(d \div 365) \o " years ago"

\* C18: for a valid date with d = floor(E / 24h) whole elapsed days,
\* formatDate returns 'Today' for d = 0, 'Yesterday' for d = 1, 'd days ago'
\* for d < 7, 'floor(d/7) weeks ago' for d < 30, 'floor(d/30) months ago'
\* for d < 365 and 'floor(d/365) years ago' otherwise.
C18_DateBuckets ==
  CalledWithDate("formatDate")
    => Val(returned).text = DateLabelOf(elapsed \div Day)

\* formatDate has returned the label of the seventh day
C18_Witness ==
  /\ CalledWithDate("formatDate")
  /\ elapsed \div Day = 7
  /\ Val(returned).text = "1 weeks ago"

----------------------------------------------------------------------------
\* the largest count a relative time shows below a year: minutes < 60
MaxCount == 59

\* the counted buckets of formatRelativeTime and their place in the order
\* Just now < minutes < hours < Yesterday < days < months < years
CountedUnits == {"minute", "hour", "day", "month", "year"}

UnitRank(unit) ==
  CASE unit = "minute" -> 1
    [] unit = "hour"   -> 2
    [] unit = "day"    -> 4
    [] unit = "month"  -> 5
    [] unit = "year"   -> 6

\* every text 'n unit ago' / 'n units ago', with its bucket and its count
CountedTexts ==
  UNION {{[text |-> ToString(n) \o " " \o u \o sfx, rank |-> UnitRank(u),
           count |-> n] : sfx \in {" ago", "s ago"}} :
         n \in 1..MaxCount, u \in CountedUnits}

\* the bucket and the count a relative time reads as
ReadRelative(text) ==
  IF text = "Just now" THEN [rank |-> 0, count |-> 0]
  ELSE IF text = "Yesterday" THEN [rank |-> 3, count |-> 1]
  ELSE LET t == CHOOSE c \in CountedTexts : c.text = text
       IN  [rank |-> t.rank, count |-> t.count]

\* a is not after b: a coarser bucket never comes first, and within one
\* bucket the count does not decrease
NotAfter(a, b) ==
  \/ a.rank < b.rank
  \/ a.rank = b.rank /\ a.count <= b.count

\* C19: formatRelativeTime is monotonic in elapsed time: the text returned
\* for a date is not after, in bucket and count, the text returned for the
\* same date at any later instant; and 59 s reads 'Just now', 61 s
\* '1 minute ago', 3660 s '1 hour ago', 90000 s 'Yesterday'.
C19_RelativeTimeMonotonic ==
  CalledWithDate("formatRelativeTime") =>
    /\ \A t \in Instants :
         t >= now =>
           NotAfter(ReadRelative(Val(returned).text),
                    ReadRelative(formatRelativeTime(dateStr, t)))
    /\ elapsed = 59 => Val(returned).text = "Just now"
    /\ elapsed = 61 => Val(returned).text = "1 minute ago"
    /\ elapsed = 3660 => Val(returned).text = "1 hour ago"
    /\ elapsed = 90000 => Val(returned).text = "Yesterday"

\* formatRelativeTime has returned 'Yesterday' for 90000 s
C19_Witness ==
  /\ CalledWithDate("formatRelativeTime")
  /\ elapsed = 90000
  /\ Val(returned).text = "Yesterday"

----------------------------------------------------------------------------
\* the argument is missing, null, empty or does not parse as a date
NoDate == dateStr = Null \/ Val(dateStr) \notin ValidDates

\* C20: every call of formatRelativeTime and of formatDate returns a string,
\* and for a missing, null, empty or unparsable argument that string is
\* 'Unknown'.
C20_FormattersTotal ==
  returned # Null =>
    /\ Val(returned).text \in STRING
    /\ NoDate => Val(returned).text = "Unknown"

\* formatDate has returned 'Unknown' for a string that is not a date
C20_Witness ==
  /\ returned # Null /\ Val(returned).fn = "formatDate"
  /\ dateStr = Some("not a date")
  /\ Val(returned).text = "Unknown"

----------------------------------------------------------------------------
\* the pull requests of the slice a filter button would display
WouldDisplay(v) ==
  {i \in 1..Len(readPullRequests) :
     v = "all" \/ readPullRequests[i].state = v}

\* C21: in every state of the mounted Pull Requests panel the badge of each
\* filter button is the number of pull requests of the slice that filter
\* displays, and the open and the closed badge add up to the number of pull
\* requests in the slice.
C21_BadgesCountTheFilter ==
  mounted["prs"] =>
    /\ \A v \in filterButtons(revision) :
         /\ countBadges[v] = Cardinality(WouldDisplay(v))
         /\ filter = v => countBadges[v] = Len(filteredPullRequests)
    /\ countBadges["open"] + countBadges["closed"] = Len(readPullRequests)

\* a slice with one open and two closed pull requests, one of them merged
C21_Witness ==
  /\ mounted["prs"]
  /\ Len(readPullRequests) = 3
  /\ countBadges["open"] = 1 /\ countBadges["closed"] = 2
  /\ \E i \in 1..3 : /\ readPullRequests[i].state = "closed"
                     /\ HasMergeTimestamp(readPullRequests[i])
  /\ filter = "closed"

----------------------------------------------------------------------------
\* the data the host holds in the three slices
sliceData == <<commits, pullRequests, gitConfig>>

----------------------------------------------------------------------------
\* the 'Listens' column of the event vocabulary table
ListensColumn ==
  [history  |-> {"git-panels.commit-history:refresh",
                 "git-panels.commit-history:set-limit"},
   detail   |-> {"git-panels.commit-detail:loading",
                 "git-panels.commit-detail:loaded",
                 "git-panels.commit-detail:error"},
   prs      |-> {"git-panels.pull-requests:refresh",
                 "git-panels.pull-requests:set-filter"},
   prDetail |-> {"git-panels.pull-request:selected"},
   config   |-> {"git-panels.config:refresh", "git-panels.config:set-view"}]

\* the 'Emits' column of the event vocabulary table
EmitsColumn ==
  [history  |-> {"git-panels.commit:selected"},
   detail   |-> {"git-panels.commit:deselected"},
   prs      |-> {"git-panels.pull-request:selected"},
   prDetail |-> {"git-panels.pull-request:deselected"},
   config   |-> {}]

\* the source a panel names in the events it emits
SourceOf ==
  [history  |-> "git-panels.commit-history",
   detail   |-> "git-panels.commit-detail",
   prs      |-> "git-panels.pull-requests",
   prDetail |-> "git-panels.pull-request-detail",
   config   |-> "git-panels.config"]

\* the event types panel p has a handler registered for
SubscribedTypes(p) == {h.type : h \in {g \in handlers : g.panel = p}}

----------------------------------------------------------------------------
\* the handlers subscribed to the type of event e
SubscribedTo(e) == {h \in handlers : h.type = e.type}

\* C24: emit invokes exactly the handlers subscribed to the type of the
\* event at that moment, each once and none of another type; a run of a
\* disposer, or off with its type and handler, removes that one handler from
\* that type and leaves every other subscription in place, so no later
\* emission invokes it; and a run of a disposer whose handler is already
\* removed changes nothing.
C24_EmitterFanOut ==
  [][ /\ lastEvent' # Null =>
           /\ invoked' = SubscribedTo(Val(lastEvent'))
           /\ invoked' \subseteq handlers'
           /\ handlers' = handlers
      /\ \A t \in EmitterTypes, h \in EmitterHandlers :
           LET d == [type |-> t, panel |-> h]
           IN  (unsubscribe(d) \/ off(t, h)) =>
                 /\ d \notin handlers'
                 /\ handlers' = handlers \ {d}
                 /\ d \notin handlers => handlers' = handlers
    ]_vars

\* an emission has invoked the one handler left for its type after the
\* disposer of the other handler ran
C24_Witness ==
  /\ emitted("git-panels.pull-request:selected")
  /\ invoked = {[type |-> "git-panels.pull-request:selected", panel |-> "prDetail"]}
  /\ [type |-> "git-panels.pull-request:selected", panel |-> "detail"]
       \in unsubscribers["detail"] \ handlers
  /\ \E h \in handlers : h.type # "git-panels.pull-request:selected"

----------------------------------------------------------------------------
\* the host has answered every selection
AllAnswered == fetching = {} /\ ~selectionUnhandled

\* the state of Commit Detail belongs to the commit with hash h: the loaded
\* display of that commit, or the error display after its fetch failed
BelongsTo(h) ==
  \/ CommitDetailDisplay = "loaded" /\ Val(selectedCommit).hash = h
  \/ /\ CommitDetailDisplay = "error"
     /\ emitted("git-panels.commit-detail:error")
     /\ Val(lastEvent).payload.hash = Some(h)

\* C25: once the host has answered every selection, Commit Detail shows the
\* state of the commit selected last in Commit History (its loaded display,
\* or the error of its fetch, or nothing once it was closed): an answer to
\* an earlier selection never stands in place of the newer one.
C25_LastSelectionWins ==
  (mounted["detail"] /\ AllAnswered /\ selectedHash # Null
     /\ CommitDetailDisplay \in {"loaded", "error"}
     /\ (CommitDetailDisplay = "error" => emitted("git-panels.commit-detail:error")))
    => BelongsTo(Val(selectedHash))

----------------------------------------------------------------------------
\* the whole slice sorted newest first
wholeSliceSorted == sortedCommitsOf(readCommits, Len(readCommits))

\* C26: the displayed list has min(limit, n) entries and they are the first
\* min(limit, n) entries of the whole slice sorted newest first, in whatever
\* order the host supplied the array.
C26_ShowsMostRecent ==
  /\ Len(sortedCommits) = Min(limit, Len(readCommits))
  /\ sortedCommits = slice(wholeSliceSorted, limit)

----------------------------------------------------------------------------
\* the refresh() calls a step has made
issued == pending' \ pending

\* C27: no step makes a context.refresh call for a slice that reports
\* loading, neither a click on the Refresh button nor a '...:refresh' event.
C27_NoRefreshWhileLoading ==
  [][ \A r \in issued : ~sliceLoading[r.slice] ]_vars

----------------------------------------------------------------------------
\* the labels whose count is at least 1 (at least 2 in 'N days ago'), with
\* the labels that carry no count
PositiveLabels ==
  {"Just now", "Today", "Yesterday"}
  \cup {Ago(n, "minute") : n \in 1..MaxCount}
  \cup {Ago(n, "hour") : n \in 1..23}
  \cup {ToString(n) \o " days ago" : n \in 2..29}
  \cup {ToString(n) \o " weeks ago" : n \in 1..4}
  \cup {Ago(n, "month") : n \in 1..11}
  \cup {ToString(n) \o " months ago" : n \in 1..12}
  \cup {Ago(n, "year") : n \in 1..(MaxYears + 1)}
  \cup {ToString(n) \o " years ago" : n \in 1..(MaxYears + 1)}

\* C28: for every valid date, dates later than the current time included,
\* formatDate and formatRelativeTime print no zero or negative count, and a
\* date in the future gets the lowest bucket, 'Today' or 'Just now'.
C28_CountsAtLeastOne ==
  (returned # Null /\ dateStr # Null /\ Val(dateStr) \in ValidDates)
    => /\ Val(returned).text \in PositiveLabels
       /\ elapsed < 0 => Val(returned).text \in {"Today", "Just now"}

----------------------------------------------------------------------------
\* the last step emitted a ':loaded' event whose payload carries no commit
LoadedWithoutCommit ==
  /\ emitted("git-panels.commit-detail:loaded")
  /\ Val(lastEvent).payload.commit = Null

\* C30: a 'git-panels.commit-detail:loaded' event whose payload carries no
\* commit leaves selectedCommit, isLoading and error of Commit Detail as
\* they were, so a panel that shows the loading display keeps showing it.
C30_EmptyLoadedChangesNothing ==
  [][ (mounted["detail"] /\ LoadedWithoutCommit')
        => /\ UNCHANGED detailVars
           /\ CommitDetailDisplay = "loading" => CommitDetailDisplay' = "loading"
    ]_vars

\* Commit Detail shows the loading display right after a ':loaded' event
\* without a commit
C30_Witness ==
  /\ mounted["detail"]
  /\ LoadedWithoutCommit
  /\ CommitDetailDisplay = "loading"

----------------------------------------------------------------------------
\* the handlers of panel p for type t that any emitter holds
registeredFor(p, t) == {h \in registry : h.panel = p /\ h.type = t}

\* C29: after any sequence of mounts, re-renders with another events or
\* context prop, and unmounts, a rendered panel has exactly one handler per
\* type it listens to, on the emitter it holds now; no other emitter and
\* no type outside its list holds a handler of it, and a panel that is not
\* rendered has no handler anywhere.
C29_OneHandlerPerType ==
  \A p \in Panels :
    /\ \A h \in registry :
         h.panel = p => /\ eventsProp[p] = Some(h.emitter)
                        /\ h.type \in Listens(p)
    /\ eventsProp[p] # Null
         => \A t \in Listens(p) : Cardinality(registeredFor(p, t)) = 1

\* Commit History holds the second emitter with the closures of a later
\* effect run, beside a panel that is not rendered and one whose effect
\* does not depend on the context
C29_Witness ==
  /\ eventsProp["history"] = Some("second")
  /\ \E h \in registry : h.panel = "history" /\ h.run = 2
  /\ eventsProp["prs"] = Null
  /\ eventsProp["detail"] = Some("first")

====
